---- MODULE Spec2Model ----
(***************************************************************************)
(* Model of the DSPy content services of mymind-clone-web:                 *)
(*   src/services/dspy-service/main.py  title extraction and summaries     *)
(*   src/dspy-service/main.py           hierarchical tag generation        *)
(*                                                                         *)
(* A Python str is modelled as a sequence of one-character strings, so     *)
(* that slicing, strip(), lower(), startswith() and the regular            *)
(* expressions are computed character by character.  A float score is      *)
(* modelled by its value in hundredths (0.95 is 95).                       *)
(***************************************************************************)
EXTENDS Integers, Sequences, FiniteSets, TLC

VARIABLES
    env,       \* the process environment read at import time (os.getenv)
    lm,        \* dspy.settings.lm is not None
    pc,        \* position of the service in the request being handled
    req,       \* the request being handled
    clean,     \* extract(): raw_content with the author prefix removed
    result,    \* what the external collaborator (the predictor) produced
    calls,     \* invocations of the collaborator within this request
    resp       \* what the caller receives: a response body or an HTTP error

vars == <<env, lm, pc, req, clean, result, calls, resp>>

----------------------------------------------------------------------------
(* Python str primitives                                                   *)

Min(a, b) == IF a <= b THEN a ELSE b

Rep(c, n) == [i \in 1..n |-> c]

UPPER == <<"A","B","C","D","E","F","G","H","I","J","K","L","M",
           "N","O","P","Q","R","S","T","U","V","W","X","Y","Z">>
LOWER == <<"a","b","c","d","e","f","g","h","i","j","k","l","m",
           "n","o","p","q","r","s","t","u","v","w","x","y","z">>

\* str.lower() on one character
lower_char(c) ==
    IF \E i \in 1..Len(UPPER) : UPPER[i] = c
    THEN LOWER[CHOOSE i \in 1..Len(UPPER) : UPPER[i] = c]
    ELSE c

\* str.lower()
lower(s) == [i \in 1..Len(s) |-> lower_char(s[i])]

\* s[:n]
Take(s, n) == SubSeq(s, 1, Min(n, Len(s)))

\* s[n:]
Drop(s, n) == SubSeq(s, n + 1, Len(s))

\* s.startswith(p)
startswith(s, p) == Len(p) <= Len(s) /\ SubSeq(s, 1, Len(p)) = p

\* sub in s
contains(s, sub) ==
    \E i \in 0..(Len(s) - Len(sub)) : SubSeq(s, i + 1, i + Len(sub)) = sub

\* s.replace(c, "") for a one-character c
remove_char(s, c) == SelectSeq(s, LAMBDA x : x # c)

\* s.replace(c, d) for one-character c and d
replace_char(s, c, d) == [i \in 1..Len(s) |-> IF s[i] = c THEN d ELSE s[i]]

MIDDOT == "·"

\* characters for which str.isspace() holds, which are also those of \s
Whitespace == {" ", "\t", "\n"}

\* the class [\s\-:·] of the separator regular expression
Separators == Whitespace \cup {"-", ":", MIDDOT}

\* the characters removed by strip('"\'')
Quotes == {"\"", "'"}

\* the sentence terminators of the class [.!?]
Terminators == {".", "!", "?"}

\* s.lstrip(chars): drop the longest prefix made of characters of chars
lstrip(s, chars) ==
    IF \A i \in 1..Len(s) : s[i] \in chars
    THEN <<>>
    ELSE Drop(s, (CHOOSE i \in 1..Len(s) :
                     s[i] \notin chars /\ \A j \in 1..(i - 1) : s[j] \in chars) - 1)

\* s.rstrip(chars)
rstrip(s, chars) ==
    IF \A i \in 1..Len(s) : s[i] \in chars
    THEN <<>>
    ELSE Take(s, CHOOSE i \in 1..Len(s) :
                     s[i] \notin chars /\ \A j \in (i + 1)..Len(s) : s[j] \in chars)

\* s.strip(chars); s.strip() is strip(s, Whitespace)
strip(s, chars) == rstrip(lstrip(s, chars), chars)

----------------------------------------------------------------------------
(* src/services/dspy-service/main.py: the deterministic helpers            *)

\* AITitleExtractor._remove_author_prefix: the candidate prefixes, in order
author_patterns(author) == <<author, lower(author), remove_char(author, "@")>>

\* variant of first_match that compares without lower(): a case-sensitive
\* prefix test
first_match_mut(content, author) ==
    LET ps == author_patterns(author)
        hits == {i \in 1..Len(ps) : ps[i] # <<>> /\ startswith(content, ps[i])}
    IN  IF hits = {} THEN 0 ELSE CHOOSE i \in hits : \A j \in hits : i <= j

\* the first pattern p with `p and content.lower().startswith(p.lower())`,
\* as its index in the list, or 0 when the loop ends without a break
first_match(content, author) ==
    LET ps == author_patterns(author)
        hits == {i \in 1..Len(ps) :
                    ps[i] # <<>> /\ startswith(lower(content), lower(ps[i]))}
    IN  IF hits = {} THEN 0 ELSE CHOOSE i \in hits : \A j \in hits : i <= j

\* variant of remove_author_prefix that applies strip() whether or not a
\* pattern matched
remove_author_prefix_mut(content, author) ==
    LET m == first_match(content, author)
        cut == IF m = 0
               THEN strip(content, Whitespace)
               ELSE strip(Drop(content, Len(author_patterns(author)[m])), Whitespace)
    IN  lstrip(cut, Separators)

\* AITitleExtractor._remove_author_prefix
remove_author_prefix(content, author) ==
    LET m == first_match(content, author)
        cut == IF m = 0
               THEN content
               ELSE strip(Drop(content, Len(author_patterns(author)[m])), Whitespace)
    IN  lstrip(cut, Separators)

\* the 80 of _smart_truncate
TRUNCATE_LEN == 80

ELLIPSIS == <<".", ".", ".">>

\* re.match(r'^([^.!?]+[.!?])', content).group(1), or <<>> when there is no
\* match: one or more non-terminators followed by the first terminator
first_sentence(content) ==
    IF /\ content # <<>>
       /\ content[1] \notin Terminators
       /\ \E i \in 1..Len(content) : content[i] \in Terminators
    THEN Take(content, CHOOSE i \in 1..Len(content) :
                  /\ content[i] \in Terminators
                  /\ \A j \in 1..(i - 1) : content[j] \notin Terminators)
    ELSE <<>>

\* s.rsplit(' ', 1)[0]
rsplit_head(s) ==
    IF \E i \in 1..Len(s) : s[i] = " "
    THEN Take(s, (CHOOSE i \in 1..Len(s) :
                     s[i] = " " /\ \A j \in (i + 1)..Len(s) : s[j] # " ") - 1)
    ELSE s

\* the body of _smart_truncate with its literal 80 written as L
truncate_at(content, L) ==
    LET sentence == first_sentence(content)
    IN  IF sentence # <<>> /\ Len(sentence) <= L
        THEN sentence
        ELSE IF Len(content) > L
             THEN rsplit_head(Take(content, L)) \o ELLIPSIS
             ELSE content

\* variant of _smart_truncate that returns the first sentence whatever its
\* length
smart_truncate_any_sentence(content) ==
    LET sentence == first_sentence(content)
    IN  IF sentence # <<>>
        THEN sentence
        ELSE truncate_at(content, TRUNCATE_LEN)

\* variant of _smart_truncate that cuts a text of exactly 80 characters
\* (len(content) >= 80)
smart_truncate_ge(content) ==
    LET sentence == first_sentence(content)
    IN  IF sentence # <<>> /\ Len(sentence) <= TRUNCATE_LEN
        THEN sentence
        ELSE IF Len(content) >= TRUNCATE_LEN
             THEN rsplit_head(Take(content, TRUNCATE_LEN)) \o ELLIPSIS
             ELSE content

\* variant of _smart_truncate that accepts only a first sentence shorter
\* than 80 characters (len(match.group(1)) < 80)
smart_truncate_lt(content) ==
    LET sentence == first_sentence(content)
    IN  IF sentence # <<>> /\ Len(sentence) < TRUNCATE_LEN
        THEN sentence
        ELSE IF Len(content) > TRUNCATE_LEN
             THEN rsplit_head(Take(content, TRUNCATE_LEN)) \o ELLIPSIS
             ELSE content

\* variant of _smart_truncate that cuts at the first space (split(' ', 1)[0])
smart_truncate_first_space(content) ==
    LET sentence == first_sentence(content)
        head == Take(content, TRUNCATE_LEN)
    IN  IF sentence # <<>> /\ Len(sentence) <= TRUNCATE_LEN
        THEN sentence
        ELSE IF Len(content) > TRUNCATE_LEN
             THEN (IF \E i \in 1..Len(head) : head[i] = " "
                   THEN Take(head, (CHOOSE i \in 1..Len(head) :
                            head[i] = " " /\ \A j \in 1..(i - 1) : head[j] # " ") - 1)
                   ELSE head) \o ELLIPSIS
             ELSE content

\* AITitleExtractor._smart_truncate
smart_truncate(content) == truncate_at(content, TRUNCATE_LEN)

\* the windows of _is_just_copy
COPY_ORIG_WINDOW == 200
COPY_SUMM_WINDOW == 50

\* variant of _is_just_copy that searches the whole original
\* (orig_lower = original.lower())
is_just_copy_mut(original, summary) ==
    contains(lower(original), Take(lower(summary), COPY_SUMM_WINDOW))

\* AISummaryGenerator._is_just_copy
is_just_copy(original, summary) ==
    contains(Take(lower(original), COPY_ORIG_WINDOW),
             Take(lower(summary), COPY_SUMM_WINDOW))

\* the score and length constants of the two services
MIN_TITLE_LEN == 10
MAX_TITLE_LEN == 100
MIN_SUMMARY_LEN == 50
MAX_SUMMARY_LEN == 500
FALLBACK_CONTENT_LEN == 200
CONF_AI_TITLE == 95
CONF_FALLBACK_TITLE == 60
QUALITY_AI_SUMMARY == 90
QUALITY_FALLBACK_SUMMARY == 30
TAG_CONFIDENCE == 85
MAX_TAGS == 2

\* extract(): result.title.strip().strip('"\'')
clean_title(title) == strip(strip(title, Whitespace), Quotes)

\* variant of title_accepted with a strict lower bound
title_accepted_mut(title) ==
    MIN_TITLE_LEN < Len(title) /\ Len(title) <= MAX_TITLE_LEN

\* extract(): 10 <= len(title) <= 100
title_accepted(title) ==
    MIN_TITLE_LEN <= Len(title) /\ Len(title) <= MAX_TITLE_LEN

\* variant of summary_accepted without the copy check
summary_accepted_mut(content, summary) ==
    MIN_SUMMARY_LEN <= Len(summary) /\ Len(summary) <= MAX_SUMMARY_LEN

\* generate(): is_analytical and 50 <= len(summary) <= 500
summary_accepted(content, summary) ==
    /\ ~is_just_copy(content, summary)
    /\ MIN_SUMMARY_LEN <= Len(summary)
    /\ Len(summary) <= MAX_SUMMARY_LEN

SAVED_FROM == <<"S", "a", "v", "e", "d", " ", "f", "r", "o", "m", " ">>
COLON_SPACE == <<":", " ">>
UNKNOWN == <<"u", "n", "k", "n", "o", "w", "n">>

\* AISummaryGenerator._fallback_summary: f"Saved from {req.platform}: {content}..."
fallback_summary(r) ==
    [kind |-> "summary",
     summary |-> SAVED_FROM \o r.platform \o COLON_SPACE
                 \o Take(r.content, FALLBACK_CONTENT_LEN) \o ELLIPSIS,
     key_topics |-> <<>>,
     content_type |-> UNKNOWN,
     quality_score |-> QUALITY_FALLBACK_SUMMARY,
     is_analytical |-> FALSE]

\* extract(): the TitleResponse of the fallback path
fallback_title(content) ==
    [kind |-> "title",
     title |-> smart_truncate(content),
     is_valid |-> TRUE,
     issues |-> <<"fallback_used">>,
     confidence |-> CONF_FALLBACK_TITLE]

\* every exception the predictor or the processing of its result raises
\* derives from Exception
ExceptionClasses == {"RuntimeError", "TimeoutError", "AttributeError"}

\* variant of catches: `except AttributeError`
catches_mut(exc) == exc = "AttributeError"

\* `except Exception` of extract() and generate()
catches(exc) == exc \in ExceptionClasses

\* variant of lm_is_set: the try block is entered whatever the settings
lm_is_set_mut(l) == TRUE

\* `if dspy.settings.lm is not None:` of extract() and generate()
lm_is_set(l) == l

\* raise HTTPException(status_code=..., detail=...)
HTTPException(status) == [kind |-> "http_error", status |-> status]

NoResp == [kind |-> "none"]
NoResult == [kind |-> "none"]

\* Python values a predictor may place in an output field
PyStr(s) == [ty |-> "str", v |-> s]
PyNone == [ty |-> "none"]
PyInt(n) == [ty |-> "int", v |-> n]

----------------------------------------------------------------------------
(* The inputs: requests and collaborator outcomes                          *)

\* how far around each length threshold the collaborator's texts are drawn
Slack == 1

\* lengths at, below and above the thresholds lo and hi
AroundLens(lo, hi) ==
    {0} \cup ((lo - Slack)..(lo + Slack)) \cup ((hi - Slack)..(hi + Slack))

JOHNDOE ==
    <<"j", "o", "h", "n", "d", "o", "e">>
AT_JOHNDOE ==
    <<"@", "j", "o", "h", "n", "d", "o", "e">>

Authors == {<<>>, JOHNDOE, AT_JOHNDOE}

INSTAGRAM ==
    <<"i", "n", "s", "t", "a", "g", "r", "a", "m">>
REDDIT ==
    <<"r", "e", "d", "d", "i", "t">>

Platforms == {INSTAGRAM, REDDIT}

C_PREFIX_ONLY ==
    <<"j", "o", "h", "n", "d", "o", "e", ":", " ">>
C_SHORT ==
    <<"H", "i", "!">>
C_EXAMPLE1 ==
    <<"j", "o", "h", "n", "d", "o", "e", ":", " ", "C", "h", "e", "c", "k",
      " ", "t", "h", "i", "s", " ", "o", "u", "t">>
C_AT_EXAMPLE1 ==
    <<"@", "J", "o", "h", "n", "D", "o", "e", ":", " ", "C", "h", "e", "c",
      "k", " ", "t", "h", "i", "s", " ", "o", "u", "t">>
C_TWO_SENTENCES ==
    <<"T", "h", "i", "s", " ", "i", "s", " ", "g", "r", "e", "a", "t", ".",
      " ", "I", "t", " ", "r", "e", "a", "l", "l", "y", " ", "i", "s", " ",
      "a", "m", "a", "z", "i", "n", "g", " ", "a", "n", "d", " ", "w", "o",
      "n", "d", "e", "r", "f", "u", "l", ".">>
C_TUTORIAL ==
    <<"F", "o", "u", "n", "d", " ", "t", "h", "i", "s", " ", "g", "r", "e",
      "a", "t", " ", "t", "u", "t", "o", "r", "i", "a", "l", " ", "o", "n",
      ".", ".", ".">>

\* longer than TRUNCATE_LEN, without a space or a terminator
C_LONG_WORD == Rep("a", TRUNCATE_LEN + 1)

\* longer than TRUNCATE_LEN, words of four letters separated by spaces
C_LONG_WORDS == [i \in 1..(TRUNCATE_LEN + 20) |-> IF i % 5 = 0 THEN " " ELSE "w"]

\* one sentence longer than TRUNCATE_LEN
C_LONG_SENTENCE == Rep("a", TRUNCATE_LEN) \o <<".">>

\* 260 characters in runs of ten equal letters: every window of it of more
\* than ten characters occurs in it once
C_LONG == [i \in 1..260 |-> LOWER[((i - 1) \div 10) + 1]]

TitleContents ==
    {<<>>, C_PREFIX_ONLY, C_SHORT, C_EXAMPLE1, C_AT_EXAMPLE1, C_TWO_SENTENCES,
     C_LONG_WORD, C_LONG_WORDS, C_LONG_SENTENCE}

TitleRequests ==
    {[op |-> "title", raw_content |-> c, author |-> a, platform |-> INSTAGRAM] :
        c \in TitleContents, a \in Authors}

SummaryContents == {<<"h", "i">>, C_TUTORIAL, C_LONG}

SummaryRequests ==
    {[op |-> "summary", content |-> c, platform |-> p] :
        c \in SummaryContents, p \in Platforms}

\* titles the predictor may return: bare, quoted with blanks outside the
\* quotes, and quoted with blanks inside the quotes
T_HI == <<"H", "i", "!", "!", "!">>

Titles ==
    {T_HI} \cup
    UNION {{Rep("t", n),
            <<" ", "\"">> \o Rep("t", n) \o <<"'", "\n">>,
            <<"\"", " ">> \o Rep("t", n) \o <<" ", "\"">>} :
           n \in AroundLens(MIN_TITLE_LEN, MAX_TITLE_LEN)}

\* a title that is an int, whose str() has MIN_TITLE_LEN characters
N_TITLE == 1234567890

\* what self.predictor(...) of AITitleExtractor does: raises, or returns a
\* result whose title is a string, is missing (None) or is an int
TitleOutcomes ==
    {[kind |-> "raise", exc |-> e] : e \in {"RuntimeError", "TimeoutError"}}
    \cup {[kind |-> "ok", title |-> PyStr(t)] : t \in Titles}
    \cup {[kind |-> "ok", title |-> PyNone], [kind |-> "ok", title |-> PyInt(N_TITLE)]}

\* summaries the predictor may return: analysis of every length around the
\* thresholds, bare or surrounded by blanks, and upper-cased windows of
\* C_LONG starting at offset o
Summaries ==
    UNION {{Rep("s", n), <<" ">> \o Rep("s", n) \o <<"\n">>} :
           n \in AroundLens(MIN_SUMMARY_LEN, MAX_SUMMARY_LEN)}
    \cup {[i \in 1..60 |-> UPPER[((o + i - 1) \div 10) + 1]] :
           o \in {0, COPY_ORIG_WINDOW - COPY_SUMM_WINDOW - Slack + 1,
                  COPY_ORIG_WINDOW - COPY_SUMM_WINDOW + Slack}}

CATEGORY ==
    <<" ", "T", "e", "c", "h", " ">>
CATEGORY_CLEAN ==
    <<"t", "e", "c", "h">>

\* what self.predictor(...) of AISummaryGenerator does
SummaryOutcomes ==
    {[kind |-> "raise", exc |-> e] : e \in {"RuntimeError", "TimeoutError"}}
    \cup {[kind |-> "ok", summary |-> PyStr(t), content_category |-> PyStr(CATEGORY)] :
            t \in Summaries}
    \cup {[kind |-> "ok", summary |-> PyStr(Rep("s", MIN_SUMMARY_LEN)),
           content_category |-> PyNone],
          [kind |-> "ok", summary |-> PyNone, content_category |-> PyStr(CATEGORY)]}

----------------------------------------------------------------------------
(* src/dspy-service/main.py: tag clean-up                                  *)

PyList(xs) == [ty |-> "list", v |-> xs]

DIGITS == <<"0", "1", "2", "3", "4", "5", "6", "7", "8", "9">>
NONE_STR == <<"N", "o", "n", "e">>
CONTEMPLATIVE == <<"c", "o", "n", "t", "e", "m", "p", "l", "a", "t", "i", "v", "e">>

\* bool(x) of a Python value
truthy(x) ==
    CASE x.ty = "none" -> FALSE
      [] x.ty = "int" -> x.v # 0
      [] OTHER -> x.v # <<>>

\* str(n) of a non-negative int
RECURSIVE int_str(_)
int_str(n) ==
    IF n < 10 THEN <<DIGITS[n + 1]>>
    ELSE int_str(n \div 10) \o <<DIGITS[(n % 10) + 1]>>

\* str(x) of a None, a non-negative int or a str
py_str(x) ==
    CASE x.ty = "none" -> NONE_STR
      [] x.ty = "int" -> int_str(x.v)
      [] OTHER -> x.v

\* x if isinstance(x, list) else [x]
as_list(x) == IF x.ty = "list" THEN x.v ELSE <<x>>

\* t.lower().strip().replace(' ', '-')
normalize_tag(t) == replace_char(strip(lower(t), Whitespace), " ", "-")

\* [t.lower().strip().replace(' ', '-') for t in tags if t][:2]; the
\* comprehension visits every truthy element before the slice, and
\* t.lower() raises AttributeError on an element that is no str
clean_tags(x) ==
    LET kept == SelectSeq(as_list(x), truthy)
    IN  IF \E i \in 1..Len(kept) : kept[i].ty # "str"
        THEN [kind |-> "raise", exc |-> "AttributeError"]
        ELSE [kind |-> "ok",
              tags |-> Take([i \in 1..Len(kept) |-> normalize_tag(kept[i].v)],
                            MAX_TAGS)]

\* vibe = v if isinstance(v, str) else str(v);
\* vibe.lower().strip().replace(' ', '-') if vibe else "contemplative"
clean_vibe(x) ==
    LET vibe == py_str(x)
    IN  IF vibe # <<>> THEN normalize_tag(vibe) ELSE CONTEMPLATIVE

\* TOGETHER_API_KEY = os.getenv("TOGETHER_API_KEY", os.getenv("ZHIPU_API_KEY"))
TOGETHER_API_KEY(e) == e.TOGETHER_API_KEY \/ e.ZHIPU_API_KEY

\* configure_dspy(): whether an LM is configured
configured(e) ==
    \/ e.LLM_PROVIDER = "zhipu" /\ e.ZHIPU_API_KEY
    \/ e.LLM_PROVIDER = "openai" /\ e.OPENAI_API_KEY

T_BMW == <<"b", "m", "w">>
T_TERENCE == <<"T", "e", "r", "e", "n", "c", "e", " ", "T", "a", "o">>
T_MATH == <<"m", "a", "t", "h">>
T_DANCE == <<" ", "D", "a", "n", "c", "e", " ">>
T_BLANK == <<" ", " ">>
V_KINETIC == <<"k", "i", "n", "e", "t", "i", "c">>
V_RAW == <<" ", "R", "a", "w", " ">>
V_SPARKLY == <<"s", "p", "a", "r", "k", "l", "y">>

TagValues ==
    {PyList(<<PyStr(T_BMW)>>),
     PyList(<<PyStr(T_TERENCE), PyStr(T_MATH), PyStr(T_DANCE)>>),
     PyList(<<>>),
     PyList(<<PyStr(T_BLANK)>>),
     PyList(<<PyStr(T_BMW), PyInt(7)>>),
     PyStr(T_BMW),
     PyNone}

VibeValues ==
    {PyStr(V_KINETIC), PyStr(V_RAW), PyStr(V_SPARKLY), PyStr(<<>>),
     PyStr(T_BLANK), PyNone}

\* what generator(...) does: raises, or returns a prediction
TagOutcomes ==
    {[kind |-> "raise", exc |-> e] : e \in {"RuntimeError", "TimeoutError"}}
    \cup {[kind |-> "ok", primary_tags |-> p, contextual_tags |-> c, vibe_tag |-> v] :
            p \in TagValues,
            c \in {PyList(<<PyStr(T_MATH)>>), PyList(<<>>)},
            v \in VibeValues}

TagRequests ==
    {[op |-> "tags", content |-> c, platform |-> INSTAGRAM] :
        c \in {<<"h", "i">>, C_TUTORIAL}}

----------------------------------------------------------------------------
(* The services as a state machine                                         *)

Environments ==
    [LLM_PROVIDER : {"zhipu", "openai"},
     ZHIPU_API_KEY : BOOLEAN, OPENAI_API_KEY : BOOLEAN, TOGETHER_API_KEY : BOOLEAN]

Init ==
    /\ env \in Environments
    /\ lm = FALSE
    /\ pc = "startup"
    /\ req = [op |-> "none"]
    /\ clean = <<>>
    /\ result = NoResult
    /\ calls = 0
    /\ resp = NoResp

\* lifespan(): configure_dspy() sets dspy.settings.lm when a key is there
configure_dspy ==
    /\ pc = "startup"
    /\ lm' = configured(env)
    /\ pc' = "idle"
    /\ UNCHANGED <<env, req, clean, result, calls, resp>>

Idle == pc = "idle"

\* the request leaves the service with this response or HTTP error
Return(r) == resp' = r /\ pc' = "done"

\* POST /extract/title: extract() up to the test of dspy.settings.lm
extract_title ==
    /\ Idle
    /\ \E r \in TitleRequests :
          /\ req' = r
          /\ clean' = remove_author_prefix(r.raw_content, r.author)
    /\ pc' = "title_try"
    /\ result' = NoResult
    /\ calls' = 0
    /\ resp' = NoResp
    /\ UNCHANGED <<env, lm>>

\* extract(): dspy.settings.lm is None, the try block is not entered
title_skip ==
    /\ pc = "title_try"
    /\ ~lm_is_set(lm)
    /\ pc' = "title_fallback"
    /\ UNCHANGED <<env, lm, req, clean, result, calls, resp>>

\* extract(): self.predictor(caption=clean[:800], ...) inside the try block;
\* an exception that the except clause does not catch reaches the handler
\* of extract_title, which raises HTTPException(500)
title_predict ==
    /\ pc = "title_try"
    /\ lm_is_set(lm)
    /\ calls' = calls + 1
    /\ \E out \in TitleOutcomes :
          /\ result' = out
          /\ IF out.kind = "raise"
             THEN IF catches(out.exc)
                  THEN pc' = "title_fallback" /\ resp' = resp
                  ELSE Return(HTTPException(500))
             ELSE pc' = "title_validate" /\ resp' = resp
    /\ UNCHANGED <<env, lm, req, clean>>

\* extract(): result.title.strip().strip('"\'') and the length gate;
\* .strip() on a title that is no str raises AttributeError
title_validate ==
    /\ pc = "title_validate"
    /\ IF result.title.ty # "str"
       THEN IF catches("AttributeError")
            THEN pc' = "title_fallback" /\ resp' = resp
            ELSE Return(HTTPException(500))
       ELSE LET title == clean_title(result.title.v)
            IN  IF title_accepted(title)
                THEN Return([kind |-> "title", title |-> title, is_valid |-> TRUE,
                             issues |-> <<>>, confidence |-> CONF_AI_TITLE])
                ELSE pc' = "title_fallback" /\ resp' = resp
    /\ UNCHANGED <<env, lm, req, clean, result, calls>>

\* extract(): the fallback, smart truncation of the cleaned content
title_fallback ==
    /\ pc = "title_fallback"
    /\ Return(fallback_title(clean))
    /\ UNCHANGED <<env, lm, req, clean, result, calls>>

\* POST /generate/summary: generate() up to the test of dspy.settings.lm
generate_summary ==
    /\ Idle
    /\ \E r \in SummaryRequests : req' = r
    /\ pc' = "summary_try"
    /\ clean' = <<>>
    /\ result' = NoResult
    /\ calls' = 0
    /\ resp' = NoResp
    /\ UNCHANGED <<env, lm>>

\* generate(): dspy.settings.lm is None
summary_skip ==
    /\ pc = "summary_try"
    /\ ~lm_is_set(lm)
    /\ pc' = "summary_fallback"
    /\ UNCHANGED <<env, lm, req, clean, result, calls, resp>>

\* generate(): self.predictor(caption=req.content[:1500], ...) in the try block
summary_predict ==
    /\ pc = "summary_try"
    /\ lm_is_set(lm)
    /\ calls' = calls + 1
    /\ \E out \in SummaryOutcomes :
          /\ result' = out
          /\ IF out.kind = "raise"
             THEN IF catches(out.exc)
                  THEN pc' = "summary_fallback" /\ resp' = resp
                  ELSE Return(HTTPException(500))
             ELSE pc' = "summary_validate" /\ resp' = resp
    /\ UNCHANGED <<env, lm, req, clean>>

\* generate(): result.summary.strip(), result.content_category.strip().lower(),
\* the copy check and the length gate
summary_validate ==
    /\ pc = "summary_validate"
    /\ IF result.summary.ty # "str" \/ result.content_category.ty # "str"
       THEN IF catches("AttributeError")
            THEN pc' = "summary_fallback" /\ resp' = resp
            ELSE Return(HTTPException(500))
       ELSE LET summary == strip(result.summary.v, Whitespace)
                category == lower(strip(result.content_category.v, Whitespace))
            IN  IF summary_accepted(req.content, summary)
                THEN Return([kind |-> "summary", summary |-> summary,
                             key_topics |-> <<category>>, content_type |-> category,
                             quality_score |-> QUALITY_AI_SUMMARY,
                             is_analytical |-> TRUE])
                ELSE pc' = "summary_fallback" /\ resp' = resp
    /\ UNCHANGED <<env, lm, req, clean, result, calls>>

\* generate(): return self._fallback_summary(req)
summary_fallback ==
    /\ pc = "summary_fallback"
    /\ Return(fallback_summary(req))
    /\ UNCHANGED <<env, lm, req, clean, result, calls>>

\* POST /generate/tags: the test of TOGETHER_API_KEY
generate_tags ==
    /\ Idle
    /\ \E r \in TagRequests : req' = r
    /\ clean' = <<>>
    /\ result' = NoResult
    /\ calls' = 0
    /\ IF ~TOGETHER_API_KEY(env)
       THEN Return(HTTPException(503))
       ELSE pc' = "tags_call" /\ resp' = NoResp
    /\ UNCHANGED <<env, lm>>

\* generate_tags(): generator(content=request.content[:2000], ...) in the
\* try block, whose except clause raises HTTPException(500)
tags_call ==
    /\ pc = "tags_call"
    /\ calls' = calls + 1
    /\ \E out \in TagOutcomes :
          /\ result' = out
          /\ IF out.kind = "raise"
             THEN Return(HTTPException(500))
             ELSE pc' = "tags_clean" /\ resp' = resp
    /\ UNCHANGED <<env, lm, req, clean>>

\* generate_tags(): clean-up of the prediction and the TagsResponse
tags_clean ==
    /\ pc = "tags_clean"
    /\ LET primary == clean_tags(result.primary_tags)
           contextual == clean_tags(result.contextual_tags)
       IN  IF primary.kind = "raise" \/ contextual.kind = "raise"
           THEN Return(HTTPException(500))
           ELSE Return([kind |-> "tags",
                        primary |-> primary.tags,
                        contextual |-> contextual.tags,
                        vibe |-> clean_vibe(result.vibe_tag),
                        confidence |-> TAG_CONFIDENCE])
    /\ UNCHANGED <<env, lm, req, clean, result, calls>>

\* the endpoint has returned: the response is sent and the request's
\* objects are dropped; the service waits for the next request
respond ==
    /\ pc = "done"
    /\ pc' = "idle"
    /\ req' = [op |-> "none"]
    /\ clean' = <<>>
    /\ result' = NoResult
    /\ calls' = 0
    /\ resp' = NoResp
    /\ UNCHANGED <<env, lm>>

Next ==
    \/ configure_dspy
    \/ extract_title
    \/ title_skip
    \/ title_predict
    \/ title_validate
    \/ title_fallback
    \/ generate_summary
    \/ summary_skip
    \/ summary_predict
    \/ summary_validate
    \/ summary_fallback
    \/ generate_tags
    \/ tags_call
    \/ tags_clean
    \/ respond

Spec == Init /\ [][Next]_vars

----------------------------------------------------------------------------
(* Properties of title extraction, summary generation and tag generation   *)

Done(op) == pc = "done" /\ req.op = op

\* the collaborator raised, or its result made the processing raise
TitleRaised == result.kind = "raise" \/ (result.kind = "ok" /\ result.title.ty # "str")

SummaryRaised ==
    \/ result.kind = "raise"
    \/ result.kind = "ok" /\ (result.summary.ty # "str" \/ result.content_category.ty # "str")

IsFallbackTitle ==
    /\ resp.kind = "title"
    /\ resp.title = smart_truncate(remove_author_prefix(req.raw_content, req.author))
    /\ resp.is_valid
    /\ resp.issues = <<"fallback_used">>
    /\ resp.confidence = 60

IsFallbackSummary ==
    /\ resp.kind = "summary"
    /\ resp.summary = SAVED_FROM \o req.platform \o COLON_SPACE
                      \o Take(req.content, 200) \o ELLIPSIS
    /\ resp.key_topics = <<>>
    /\ resp.content_type = UNKNOWN
    /\ resp.quality_score = 30
    /\ ~resp.is_analytical

\* C1: in extract and generate an exception raised by the predictor call or
\* by the processing of its result is caught: the request ends with the
\* fallback TitleResponse / SummaryResponse, and no title or summary request
\* ever ends with an HTTP error.
C1_ExceptionLeadsToFallback ==
    /\ req.op \in {"title", "summary"} => resp.kind # "http_error"
    /\ Done("title") /\ TitleRaised => IsFallbackTitle
    /\ Done("summary") /\ SummaryRaised => IsFallbackSummary

C1_Witness ==
    /\ Done("summary")
    /\ result.kind = "raise"
    /\ calls = 1
    /\ IsFallbackSummary

\* C2: without a configured LM a title or summary request never invokes the
\* predictor (no call is made and no outcome of one is ever held), and it
\* ends with the fallback result: title confidence 0.6 with issues
\* ["fallback_used"], summary quality_score 0.3 with is_analytical false.
C2_NoCredentialSkipsCollaborator ==
    (~lm /\ req.op \in {"title", "summary"}) =>
        /\ calls = 0
        /\ result = NoResult
        /\ pc \notin {"title_validate", "summary_validate"}
        /\ Done("title") => IsFallbackTitle
        /\ Done("summary") => IsFallbackSummary

C2_Witness ==
    /\ ~lm
    /\ Done("title")
    /\ calls = 0
    /\ resp.confidence = 60
    /\ resp.issues = <<"fallback_used">>

\* C3: a well-formed tag request always ends with a tag set, never with an
\* HTTP error, whether the credential is missing or the collaborator fails.
C3_TagsNeverError == Done("tags") => resp.kind = "tags"

\* C4: when the predictor returns a title, extract returns that title,
\* stripped of surrounding whitespace and quotes, with is_valid, no issues
\* and confidence 0.95 if and only if its stripped length is in [10,100];
\* otherwise it returns the fallback title with issues ["fallback_used"] and
\* confidence 0.6.  The five-character title "Hi!!!" is replaced.
C4_TitleQualityGate ==
    (Done("title") /\ result.kind = "ok" /\ result.title.ty = "str") =>
        LET title == clean_title(result.title.v)
        IN  /\ title # <<>> => title[1] \notin Quotes /\ title[Len(title)] \notin Quotes
            /\ IF 10 <= Len(title) /\ Len(title) <= 100
               THEN resp = [kind |-> "title", title |-> title, is_valid |-> TRUE,
                            issues |-> <<>>, confidence |-> 95]
               ELSE IsFallbackTitle
            /\ result.title.v = T_HI => IsFallbackTitle

C4_Witness ==
    /\ Done("title")
    /\ result.kind = "ok"
    /\ result.title.ty = "str"
    /\ Len(clean_title(result.title.v)) = 10
    /\ Len(result.title.v) > 10
    /\ resp.confidence = 95

\* C5: when the predictor returns a summary, generate returns it with
\* is_analytical true and quality_score 0.9 if and only if its stripped
\* length is in [50,500] and the copy detector does not flag it against the
\* request content; otherwise it returns the rule-based fallback
\* (is_analytical false, quality_score 0.3, content_type "unknown", no key
\* topics).  is_analytical holds exactly for accepted external results and
\* the accepted score is above the fallback score.
C5_SummaryQualityGate ==
    /\ (Done("summary") /\ result.kind = "ok" /\ ~SummaryRaised) =>
          LET summary == strip(result.summary.v, Whitespace)
          IN  IF /\ 50 <= Len(summary) /\ Len(summary) <= 500
                 /\ ~is_just_copy(req.content, summary)
              THEN /\ resp.kind = "summary"
                   /\ resp.summary = summary
                   /\ resp.key_topics = <<CATEGORY_CLEAN>>
                   /\ resp.content_type = CATEGORY_CLEAN
                   /\ resp.is_analytical
                   /\ resp.quality_score = 90
              ELSE IsFallbackSummary
    /\ Done("summary") =>
          /\ resp.is_analytical <=> resp.quality_score = 90
          /\ resp.is_analytical <=> ~IsFallbackSummary
          /\ ~resp.is_analytical => resp.quality_score < 90

C5_Witness ==
    /\ Done("summary")
    /\ result.kind = "ok"
    /\ ~SummaryRaised
    /\ Len(result.summary.v) = 60
    /\ is_just_copy(req.content, result.summary.v)
    /\ IsFallbackSummary

\* C6: a title request whose raw_content is empty, or is empty once the
\* author prefix and the separators are removed, never ends with a
\* TitleResponse that has an empty title and is_valid true.
C6_EmptyContentIsReported ==
    (Done("title") /\ remove_author_prefix(req.raw_content, req.author) = <<>>) =>
        ~(resp.kind = "title" /\ resp.title = <<>> /\ resp.is_valid)

\* C7: every TitleResponse with is_valid true, from the accepted external
\* path or from the fallback path, has a title of length in [10,100].
C7_ValidTitleLength ==
    (Done("title") /\ resp.kind = "title" /\ resp.is_valid) =>
        (10 <= Len(resp.title) /\ Len(resp.title) <= 100)

\* C8: every SummaryResponse, from the accepted external path or from the
\* fallback template, has a summary of length in [50,500].
C8_SummaryLength ==
    (Done("summary") /\ resp.kind = "summary") =>
        (50 <= Len(resp.summary) /\ Len(resp.summary) <= 500)

----------------------------------------------------------------------------
(* The text normalizer _remove_author_prefix as a pure function            *)

\* the longest content and the longest author that are enumerated in full
MaxNormLen == 3
MaxAuthorLen == 2

\* every sequence over S of length at most n
SeqsUpTo(S, n) == UNION {[1..k -> S] : k \in 0..n}

NormAlphabet == {"@", "j", "J", " ", ":", "h"}
AuthorAlphabet == {"@", "j", "J"}

C_HYPHEN == <<"j", "o", "h", "n", "d", "o", "e", " ", "-", " ", "C", "h", "e", "c", "k", " ", "t", "h", "i", "s", " ", "o", "u", "t">>
C_MIDDOT == <<"J", "o", "h", "n", "D", "o", "e", " ", MIDDOT, " ", "h", "i">>
C_TWICE == <<"j", "o", "h", "n", "d", "o", "e", " ", "j", "o", "h", "n", "d", "o", "e", ":", " ", "h", "i">>
CHECK_THIS_OUT == <<"C", "h", "e", "c", "k", " ", "t", "h", "i", "s", " ", "o", "u", "t">>

C_LEAD_HYPHEN == <<"-", " ", "h", "i">>
C_LEAD_MIDDOT == <<MIDDOT, "h", "i", " ">>

NormContents ==
    SeqsUpTo(NormAlphabet, MaxNormLen)
    \cup {C_EXAMPLE1, C_AT_EXAMPLE1, C_HYPHEN, C_MIDDOT, C_TWICE,
          C_LEAD_HYPHEN, C_LEAD_MIDDOT}

NormAuthors == SeqsUpTo(AuthorAlphabet, MaxAuthorLen) \cup {JOHNDOE, AT_JOHNDOE}

InitNorm ==
    /\ env = [LLM_PROVIDER |-> "zhipu", ZHIPU_API_KEY |-> FALSE,
              OPENAI_API_KEY |-> FALSE, TOGETHER_API_KEY |-> FALSE]
    /\ lm = FALSE
    /\ pc = "norm_start"
    /\ \E x \in NormContents, a \in NormAuthors :
          req = [op |-> "normalize", content |-> x, author |-> a]
    /\ clean = <<>>
    /\ result = NoResult
    /\ calls = 0
    /\ resp = NoResp

\* clean = self._remove_author_prefix(raw_content, author)
normalize_once ==
    /\ pc = "norm_start"
    /\ clean' = remove_author_prefix(req.content, req.author)
    /\ pc' = "norm_once"
    /\ UNCHANGED <<env, lm, req, result, calls, resp>>

\* the normalizer applied to its own output, with the same author
normalize_twice ==
    /\ pc = "norm_once"
    /\ result' = [kind |-> "normalized", v |-> remove_author_prefix(clean, req.author)]
    /\ pc' = "norm_twice"
    /\ UNCHANGED <<env, lm, req, clean, calls, resp>>

NextNorm == normalize_once \/ normalize_twice

SpecNorm == InitNorm /\ [][NextNorm]_vars

\* s without one leading "@"
WithoutAt(s) == IF s # <<>> /\ s[1] = "@" THEN Drop(s, 1) ELSE s

\* y starts, ignoring case, with the author as given or with the author
\* with its "@" characters removed
StartsWithAuthor(y, a) ==
    \E p \in {a, remove_char(a, "@")} :
        p # <<>> /\ startswith(lower(y), lower(p))

\* C9 as stated: normalizing an already normalized text returns it
\* unchanged, for every content and author.
C9_Idempotent == pc = "norm_twice" => result.v = clean

\* C9 as amended: the second application leaves the normalized text
\* unchanged exactly when that text does not itself start with the author;
\* when it does (the author occurred more than once at the start), the
\* second application removes one more occurrence and the text gets shorter.
C9_IdempotentUnlessAuthorRepeats ==
    pc = "norm_twice" =>
        /\ result.v = clean <=> ~StartsWithAuthor(clean, req.author)
        /\ StartsWithAuthor(clean, req.author) => Len(result.v) < Len(clean)

C9_Witness ==
    /\ pc = "norm_twice"
    /\ clean # req.content
    /\ clean # <<>>
    /\ result.v = clean

\* C10: a leading author is removed, ignoring case, whether or not the
\* author is given with a leading "@" and whether or not the content starts
\* with a leading "@", together with the separators that follow it;
\* "johndoe: Check this out" and "@JohnDoe: Check this out" with author
\* "johndoe" both give "Check this out".
C10_RemovesAuthorInAllFourForms ==
    pc = "norm_once" =>
        LET a == WithoutAt(req.author)
            x == WithoutAt(req.content)
        IN  /\ (a # <<>> /\ startswith(lower(x), lower(a))) =>
                  rstrip(clean, Whitespace)
                     = rstrip(lstrip(Drop(x, Len(a)), Separators), Whitespace)
            /\ (req.content \in {C_EXAMPLE1, C_AT_EXAMPLE1} /\ req.author = JOHNDOE) =>
                  clean = CHECK_THIS_OUT


\* C11 as stated: when the content does not start with the author, the
\* normalizer returns it unchanged, also when it begins with a separator
\* and when the author is empty.
C11_NoMatchIsNoOp ==
    (pc = "norm_once" /\ ~StartsWithAuthor(req.content, req.author)) =>
        clean = req.content

\* C11 as amended: when the content does not start with the author, the
\* normalizer returns the content without its leading run of separator
\* characters (whitespace, hyphen, colon, middle dot) and changes nothing
\* else; the result equals the content exactly when the content does not
\* begin with a separator.
C11_NoMatchStripsLeadingSeparators ==
    (pc = "norm_once" /\ ~StartsWithAuthor(req.content, req.author)) =>
        LET x == req.content
        IN  /\ \E k \in 0..Len(x) :
                  /\ clean = Drop(x, k)
                  /\ \A i \in 1..k : x[i] \in Separators
            /\ clean # <<>> => clean[1] \notin Separators
            /\ clean = x <=> (x = <<>> \/ x[1] \notin Separators)

C11_Witness ==
    /\ pc = "norm_once"
    /\ ~StartsWithAuthor(req.content, req.author)
    /\ req.author # <<>>
    /\ req.content # <<>>
    /\ req.content[1] = ":"
    /\ clean # <<>>
    /\ clean # req.content


----------------------------------------------------------------------------
(* The truncator _smart_truncate as a pure function                        *)

\* the longest text placed before and after the run of letters
MaxAffixLen == 2

TruncAlphabet == {"a", " ", ".", "\n"}

\* lengths of the run of letters: none, and those that bring the text and
\* the characters after the run to either side of TRUNCATE_LEN
FillLens ==
    {0} \cup ((TRUNCATE_LEN - 2 * MaxAffixLen)..(TRUNCATE_LEN + Slack))

C_NO_PUNCTUATION ==
    <<"A", " ", "v", "e", "r", "y", " ", "l", "o", "n", "g", " ", "s", "e",
      "n", "t", "e", "n", "c", "e", " ", "w", "i", "t", "h", "o", "u", "t",
      " ", "a", "n", "y", " ", "p", "u", "n", "c", "t", "u", "a", "t", "i",
      "o", "n", " ", "a", "t", " ", "a", "l", "l", " ", "h", "e", "r", "e">>
A_VERY_LONG ==
    <<"A", " ", "v", "e", "r", "y", " ", "l", "o", "n", "g", ".", ".", ".">>
THIS_IS_GREAT ==
    <<"T", "h", "i", "s", " ", "i", "s", " ", "g", "r", "e", "a", "t", ".">>
C_QUESTION ==
    <<"W", "h", "y", "?", " ", "B", "e", "c", "a", "u", "s", "e", "!">>

TruncContents ==
    {pre \o Rep("a", n) \o suf :
        pre \in SeqsUpTo(TruncAlphabet, MaxAffixLen),
        suf \in SeqsUpTo(TruncAlphabet, MaxAffixLen),
        n \in FillLens}
    \cup {C_SHORT, C_TWO_SENTENCES, C_NO_PUNCTUATION, C_QUESTION,
          C_LONG_WORD, C_LONG_WORDS, C_LONG_SENTENCE}

InitTrunc ==
    /\ env = [LLM_PROVIDER |-> "zhipu", ZHIPU_API_KEY |-> FALSE,
              OPENAI_API_KEY |-> FALSE, TOGETHER_API_KEY |-> FALSE]
    /\ lm = FALSE
    /\ pc = "trunc_start"
    /\ \E x \in TruncContents : req = [op |-> "truncate", content |-> x]
    /\ clean = <<>>
    /\ result = NoResult
    /\ calls = 0
    /\ resp = NoResp

\* title = self._smart_truncate(clean)
truncate ==
    /\ pc = "trunc_start"
    /\ result' = [kind |-> "truncated", v |-> smart_truncate(req.content)]
    /\ pc' = "trunc_done"
    /\ UNCHANGED <<env, lm, req, clean, calls, resp>>

NextTrunc == truncate

SpecTrunc == InitTrunc /\ [][NextTrunc]_vars


\* what the truncator returned for the content of the request
Truncated == result.v

TruncDone == pc = "trunc_done"

\* position of the first sentence terminator of x, 0 when it has none
FirstTerminator(x) ==
    IF \E i \in 1..Len(x) : x[i] \in Terminators
    THEN CHOOSE i \in 1..Len(x) :
             x[i] \in Terminators /\ \A j \in 1..(i - 1) : x[j] \notin Terminators
    ELSE 0

\* position of the last character of x that is in chars, 0 when none is
LastOf(x, chars) ==
    IF \E i \in 1..Len(x) : x[i] \in chars
    THEN CHOOSE i \in 1..Len(x) :
             x[i] \in chars /\ \A j \in (i + 1)..Len(x) : x[j] \notin chars
    ELSE 0

\* C12: the truncator never returns more than TRUNCATE_LEN + 3 characters
C12_TruncatedLengthBound ==
    TruncDone => Len(Truncated) <= TRUNCATE_LEN + 3

\* a text without a space or a terminator in its first 80 characters comes
\* back with exactly 83
C12_Witness ==
    /\ TruncDone
    /\ Len(req.content) > TRUNCATE_LEN
    /\ Len(Truncated) = TRUNCATE_LEN + 3

\* C13 as stated: a text of at most TRUNCATE_LEN characters comes back
\* unchanged
C13_ShortTextUnchanged ==
    (TruncDone /\ Len(req.content) <= TRUNCATE_LEN) =>
        Truncated = req.content

\* C13: a text of at most TRUNCATE_LEN characters is cut after its first
\* terminator when that terminator is neither its first nor its last
\* character, and comes back unchanged otherwise
C13_ShortTextCutAtFirstSentence ==
    (TruncDone /\ Len(req.content) <= TRUNCATE_LEN) =>
        LET x == req.content
            t == FirstTerminator(x)
        IN  IF 1 < t /\ t < Len(x)
            THEN Truncated = SubSeq(x, 1, t) /\ Truncated # x
            ELSE Truncated = x

C13_Witness ==
    /\ TruncDone
    /\ Len(req.content) = TRUNCATE_LEN
    /\ FirstTerminator(req.content) = 0
    /\ \E i \in 1..Len(req.content) : req.content[i] = " "
    /\ Truncated = req.content

\* C14 as stated: when the first terminator is among the first TRUNCATE_LEN
\* characters, the result is the text up to and including it
C14_SentenceRule ==
    (TruncDone /\ FirstTerminator(req.content) \in 1..TRUNCATE_LEN) =>
        Truncated = SubSeq(req.content, 1, FirstTerminator(req.content))

\* C14: the sentence rule holds when the first terminator is among the first
\* TRUNCATE_LEN characters and is not the first character; a text that
\* begins with a terminator is never cut at a sentence
C14_SentenceRuleAfterFirstChar ==
    /\ (TruncDone /\ FirstTerminator(req.content) \in 2..TRUNCATE_LEN) =>
           Truncated = SubSeq(req.content, 1, FirstTerminator(req.content))
    /\ (TruncDone /\ FirstTerminator(req.content) = 1) =>
           IF Len(req.content) <= TRUNCATE_LEN
           THEN Truncated = req.content
           ELSE /\ Truncated # <<".">>
                /\ Len(Truncated) >= 3
                /\ SubSeq(Truncated, Len(Truncated) - 2, Len(Truncated)) = ELLIPSIS
    /\ truncate_at(C_TWO_SENTENCES, TRUNCATE_LEN) = THIS_IS_GREAT

\* the first terminator is the 80th character of a longer text
C14_Witness ==
    /\ TruncDone
    /\ FirstTerminator(req.content) = TRUNCATE_LEN
    /\ Len(req.content) > TRUNCATE_LEN
    /\ Truncated = Take(req.content, TRUNCATE_LEN)

\* C15 as stated: a longer text without a terminator in its first
\* TRUNCATE_LEN characters is cut at the last whitespace of those characters
\* and gets "..."; without any whitespace it is cut at TRUNCATE_LEN
C15_WordBoundaryRule ==
    (/\ TruncDone
     /\ Len(req.content) > TRUNCATE_LEN
     /\ FirstTerminator(Take(req.content, TRUNCATE_LEN)) = 0) =>
        LET head == Take(req.content, TRUNCATE_LEN)
            w == LastOf(head, Whitespace)
        IN  IF w > 0
            THEN Truncated = Take(head, w - 1) \o ELLIPSIS
            ELSE Truncated \in {head, head \o ELLIPSIS}

\* C15: the cut is at the last space character (a tab or a newline is not a
\* boundary), and a text without a space among its first TRUNCATE_LEN
\* characters gives those characters followed by "..."
C15_LastSpaceRule ==
    /\ (/\ TruncDone
        /\ Len(req.content) > TRUNCATE_LEN
        /\ FirstTerminator(Take(req.content, TRUNCATE_LEN)) = 0) =>
           LET head == Take(req.content, TRUNCATE_LEN)
               w == LastOf(head, {" "})
           IN  IF w > 0
               THEN Truncated = Take(head, w - 1) \o ELLIPSIS
               ELSE Truncated = head \o ELLIPSIS
    /\ truncate_at(C_NO_PUNCTUATION, 20) = A_VERY_LONG

\* two spaces among the first 80 characters, the cut is at the second
C15_Witness ==
    /\ TruncDone
    /\ Len(req.content) > TRUNCATE_LEN
    /\ FirstTerminator(Take(req.content, TRUNCATE_LEN)) = 0
    /\ LastOf(Take(req.content, TRUNCATE_LEN), {" "}) > 2
    /\ req.content[2] = " "
    /\ Truncated =
         Take(req.content, LastOf(Take(req.content, TRUNCATE_LEN), {" "}) - 1)
             \o ELLIPSIS


----------------------------------------------------------------------------
(* The copy detector _is_just_copy as a pure function                      *)

\* the longest text of the enumerated originals and summaries
MaxCopyLen == 3

CopyAlphabet == {"a", "A", "b"}

upper(s) ==
    [i \in 1..Len(s) |->
        IF \E k \in 1..26 : LOWER[k] = s[i]
        THEN UPPER[CHOOSE k \in 1..26 : LOWER[k] = s[i]]
        ELSE s[i]]

C_SHOES ==
    <<"C", "h", "e", "c", "k", " ", "o", "u", "t", " ", "m", "y", " ", "n",
      "e", "w", " ", "s", "h", "o", "e", "s", " ", "t", "o", "d", "a", "y">>
S_SHOES ==
    <<"C", "h", "e", "c", "k", " ", "o", "u", "t", " ", "m", "y", " ", "n",
      "e", "w", " ", "s", "h", "o">>

\* pieces of C_LONG that start near the place from which COPY_SUMM_WINDOW
\* characters end at character COPY_ORIG_WINDOW, of lengths near
\* COPY_SUMM_WINDOW, as they are, in capitals, and followed by other text
LongPieces ==
    LET cut == COPY_ORIG_WINDOW - COPY_SUMM_WINDOW
        pieces == {SubSeq(C_LONG, off + 1, off + n) :
                      off \in {0} \cup ((cut - Slack)..(cut + Slack)),
                      n \in (COPY_SUMM_WINDOW - Slack)..(COPY_SUMM_WINDOW + Slack)}
    IN  UNION {{p, upper(p), p \o <<"!", "?">>} : p \in pieces}

CopyPairs ==
    (SeqsUpTo(CopyAlphabet, MaxCopyLen) \X SeqsUpTo(CopyAlphabet, MaxCopyLen))
    \cup ({C_LONG, upper(C_LONG)} \X (LongPieces \cup {<<>>}))
    \cup {<<C_SHOES, S_SHOES>>, <<S_SHOES, C_SHOES>>}

InitCopy ==
    /\ env = [LLM_PROVIDER |-> "zhipu", ZHIPU_API_KEY |-> FALSE,
              OPENAI_API_KEY |-> FALSE, TOGETHER_API_KEY |-> FALSE]
    /\ lm = FALSE
    /\ pc = "copy_start"
    /\ \E p \in CopyPairs :
           req = [op |-> "copy", original |-> p[1], summary |-> p[2]]
    /\ clean = <<>>
    /\ result = NoResult
    /\ calls = 0
    /\ resp = NoResp

\* self._is_just_copy(req.content, summary)
detect_copy ==
    /\ pc = "copy_start"
    /\ result' = [kind |-> "copy", v |-> is_just_copy(req.original, req.summary)]
    /\ pc' = "copy_done"
    /\ UNCHANGED <<env, lm, req, clean, calls, resp>>

NextCopy == detect_copy

SpecCopy == InitCopy /\ [][NextCopy]_vars

\* c and d are the same character up to the case of a letter
SameLetter(c, d) ==
    c = d \/ \E k \in 1..26 : {c, d} = {LOWER[k], UPPER[k]}

\* the first COPY_SUMM_WINDOW characters of s occur, up to case, in a row
\* among the first COPY_ORIG_WINDOW characters of o
OccursInWindow(o, s) ==
    LET n == Min(Len(s), COPY_SUMM_WINDOW)
        m == Min(Len(o), COPY_ORIG_WINDOW)
    IN  \E k \in 0..(m - n) : \A i \in 1..n : SameLetter(o[k + i], s[i])

\* C16: the detector answers true exactly when the first 50 characters of
\* the lower-cased summary occur in the first 200 characters of the
\* lower-cased original; the example is a copy, the reverse pair is not,
\* and an empty summary is a copy
C16_CopyDetector ==
    /\ pc = "copy_done" =>
           /\ result.v <=> OccursInWindow(req.original, req.summary)
           /\ req.summary = <<>> => result.v
    /\ is_just_copy(C_SHOES, S_SHOES)
    /\ ~is_just_copy(S_SHOES, C_SHOES)

\* a summary in capitals whose first 50 characters are the last 50 of the
\* window of a longer original
C16_Witness ==
    /\ pc = "copy_done"
    /\ Len(req.original) > COPY_ORIG_WINDOW
    /\ Len(req.summary) > COPY_SUMM_WINDOW
    /\ req.summary # lower(req.summary)
    /\ ~OccursInWindow(Take(req.original, COPY_ORIG_WINDOW - 1), req.summary)
    /\ result.v


----------------------------------------------------------------------------
(* The fallback summary and the tag set                                    *)

SAVED_FROM_REDDIT_TUTORIAL ==
    <<"S", "a", "v", "e", "d", " ", "f", "r", "o", "m", " ", "r", "e", "d",
      "d", "i", "t", ":", " ", "F", "o", "u", "n", "d", " ", "t", "h", "i",
      "s", " ", "g", "r", "e", "a", "t", " ", "t", "u", "t", "o", "r", "i",
      "a", "l", " ", "o", "n", ".", ".", ".">>

\* C17: a fallback summary has quality_score 0.3 and is_analytical false,
\* and for platform "reddit" and content "Found this great tutorial on..."
\* its text is "Saved from reddit: Found this great tutorial on..."
C17_FallbackSummaryExample ==
    (/\ Done("summary")
     /\ resp.kind = "summary"
     /\ resp.quality_score = QUALITY_FALLBACK_SUMMARY) =>
        /\ ~resp.is_analytical
        /\ (req.platform = REDDIT /\ req.content = C_TUTORIAL) =>
               resp.summary = SAVED_FROM_REDDIT_TUTORIAL

\* the tag strings of a TagsResponse
IsTagString(t) ==
    /\ t # <<>>
    /\ t = lower(t)
    /\ \A i \in 1..Len(t) : t[i] # " "

\* C18: a returned tag set has 1 or 2 primary tags and 1 or 2 contextual
\* tags, each of them non-empty, lowercase and without a space
C18_TagSetInvariant ==
    (Done("tags") /\ resp.kind = "tags") =>
        /\ Len(resp.primary) \in 1..MAX_TAGS
        /\ Len(resp.contextual) \in 1..MAX_TAGS
        /\ \A i \in 1..Len(resp.primary) : IsTagString(resp.primary[i])
        /\ \A i \in 1..Len(resp.contextual) : IsTagString(resp.contextual[i])

\* the 15 mood terms of the vibe_tag field
VOCABULARY ==
    {<<"k", "i", "n", "e", "t", "i", "c">>,
     <<"a", "t", "m", "o", "s", "p", "h", "e", "r", "i", "c">>,
     <<"m", "i", "n", "i", "m", "a", "l", "i", "s", "t">>,
     <<"r", "a", "w">>,
     <<"n", "o", "s", "t", "a", "l", "g", "i", "c">>,
     <<"e", "l", "e", "g", "a", "n", "t">>,
     <<"c", "h", "a", "o", "t", "i", "c">>,
     <<"e", "t", "h", "e", "r", "e", "a", "l">>,
     <<"t", "a", "c", "t", "i", "l", "e">>,
     <<"v", "i", "s", "c", "e", "r", "a", "l">>,
     <<"c", "o", "n", "t", "e", "m", "p", "l", "a", "t", "i", "v", "e">>,
     <<"p", "l", "a", "y", "f", "u", "l">>,
     <<"p", "r", "e", "c", "i", "s", "e">>,
     <<"o", "r", "g", "a", "n", "i", "c">>,
     <<"g", "e", "o", "m", "e", "t", "r", "i", "c">>}

\* C19: a returned tag set has a vibe of the vocabulary, and it is
\* "contemplative" when the collaborator's vibe_tag is None, empty, blank
\* or not a term of the vocabulary
C19_VibeInvariant ==
    (Done("tags") /\ resp.kind = "tags") =>
        /\ resp.vibe \in VOCABULARY
        /\ (\/ result.vibe_tag.ty # "str"
            \/ strip(result.vibe_tag.v, Whitespace) = <<>>
            \/ normalize_tag(result.vibe_tag.v) \notin VOCABULARY) =>
               resp.vibe = CONTEMPLATIVE


\* the collaborator has been invoked at most once for the request, and
\* exactly once when the request ends with an outcome of the collaborator
SingleAttempt ==
    /\ calls <= 1
    /\ (pc = "done" /\ result.kind # "none") => calls = 1

\* the response is an accepted external result or the fallback result
TerminalOutcome ==
    \/ resp.kind = "title" /\ resp.confidence \in {CONF_AI_TITLE, CONF_FALLBACK_TITLE}
    \/ resp.kind = "summary"
          /\ resp.quality_score \in {QUALITY_AI_SUMMARY, QUALITY_FALLBACK_SUMMARY}
    \/ resp.kind = "tags"

\* C20: the collaborator is invoked at most once per title, summary or tag
\* request, and every finished request has an accepted external result or
\* a fallback result
C20_SingleAttemptThenFallback ==
    /\ SingleAttempt
    /\ pc = "done" => TerminalOutcome

\* the part of C20 about title extraction and summary generation
C20_TitleAndSummary ==
    /\ SingleAttempt
    /\ (pc = "done" /\ req.op \in {"title", "summary"}) => TerminalOutcome


----------------------------------------------------------------------------
(* Wrongly typed output of the collaborator                                *)

\* the tags of a field x when a value that is no list counts as a list of
\* one element and an element that is no str counts as its str()
degraded_tags(x) ==
    LET kept == SelectSeq(as_list(x), truthy)
    IN  Take([i \in 1..Len(kept) |-> normalize_tag(py_str(kept[i]))], MAX_TAGS)

\* a tag field that is no list is treated as a list of one element
C21_NonListIsOneElement ==
    (/\ Done("tags")
     /\ result.kind = "ok"
     /\ result.primary_tags.ty = "str"
     /\ result.contextual_tags.ty = "list") =>
        /\ resp.kind = "tags"
        /\ resp.primary = IF result.primary_tags.v = <<>> THEN <<>>
                          ELSE <<normalize_tag(result.primary_tags.v)>>

\* a vibe_tag that is no str is stringified
C21_VibeIsStringified ==
    (Done("tags") /\ resp.kind = "tags" /\ result.vibe_tag.ty # "str") =>
        resp.vibe = normalize_tag(py_str(result.vibe_tag))

\* every prediction of the tag generator gets a response, with the tags
\* of degraded_tags
C21_TagsAlwaysReturned ==
    (Done("tags") /\ result.kind = "ok") =>
        /\ resp.kind = "tags"
        /\ resp.primary = degraded_tags(result.primary_tags)
        /\ resp.contextual = degraded_tags(result.contextual_tags)

\* a title that is no str is used in its string form
C21_TitleIsStringified ==
    (/\ Done("title")
     /\ result.kind = "ok"
     /\ result.title.ty # "str"
     /\ title_accepted(clean_title(py_str(result.title)))) =>
        /\ resp.kind = "title"
        /\ resp.title = clean_title(py_str(result.title))
        /\ resp.confidence = CONF_AI_TITLE

\* C21: wrongly typed output of the collaborator degrades field by field:
\* a tag field that is no list is a list of one element, a vibe_tag that is
\* no str is stringified, an element of a tag list that is no str is
\* stringified and a response is still returned, and a title that is no
\* str is used in its string form
C21_FieldByFieldDegradation ==
    /\ C21_NonListIsOneElement
    /\ C21_VibeIsStringified
    /\ C21_TagsAlwaysReturned
    /\ C21_TitleIsStringified


----------------------------------------------------------------------------
(* AssetModule.forward                                                     *)

\* the longest list of images or slides a collaborator returns
MaxImages == 2

\* a key that a dict does not have; d.get(key) is then None
ABSENT == "<absent>"

\* the URLs of the model: of an extracted image, of a slide, of an upgrade
URL_A == "https://cdn/a.jpg"
URL_B == "https://cdn/b.jpg"
URL_UP == "https://cdn/a_1080.jpg"

\* x or y of two str-or-None values
py_or(x, y) == IF x \notin {ABSENT, ""} THEN x ELSE y

\* img.get("url") or img.get("image_url")
image_url_of(img) == py_or(img.url, img.image_url)

\* bool(url) of that value
has_url(img) == image_url_of(img) \notin {ABSENT, ""}

\* the dicts of a list: {url}, {image_url}, no URL at all, and an empty
\* url beside an image_url
ImageKinds ==
    {[url |-> URL_A, image_url |-> ABSENT],
     [url |-> ABSENT, image_url |-> URL_B],
     [url |-> ABSENT, image_url |-> ABSENT],
     [url |-> "", image_url |-> URL_B]}

\* slides are {index, image_url, ...}, with or without their image_url
SlideKinds ==
    {[url |-> ABSENT, image_url |-> URL_B],
     [url |-> ABSENT, image_url |-> ABSENT],
     [url |-> URL_A, image_url |-> ABSENT]}

\* lists of at most MaxImages dicts, each with its position as index
ImageLists(kinds) ==
    UNION {{[i \in 1..n |-> [index |-> i, url |-> f[i].url,
                             image_url |-> f[i].image_url]] :
               f \in [1..n -> kinds]} : n \in 0..MaxImages}

\* what self.extractor(...) returns
Extractions ==
    {[images |-> l, is_carousel |-> c] :
        l \in ImageLists(ImageKinds), c \in BOOLEAN}

\* what self.carousel_parser(...) returns: total_slides is the number of
\* slides, or 0 when the parse failed
Carousels ==
    UNION {{[slides |-> l, total_slides |-> t] : t \in {0, Len(l)}} :
              l \in ImageLists(SlideKinds)}

\* what self.quality_validator(...) returns
Validations ==
    {[is_valid |-> TRUE, suggested_upgrade |-> ABSENT],
     [is_valid |-> FALSE, suggested_upgrade |-> URL_UP],
     [is_valid |-> FALSE, suggested_upgrade |-> ABSENT]}

NoCarousel == [slides |-> <<>>, total_slides |-> 0]


\* {**img, "quality_tier": validation.quality_tier, "validated": True}
validated(img) ==
    [index |-> img.index, url |-> img.url, image_url |-> img.image_url,
     quality_tier |-> "full", validated |-> TRUE]

\* {**img, "url": validation.suggested_upgrade, "quality_tier": "upgraded",
\*  "validated": True}
upgraded(img, validation) ==
    [index |-> img.index, url |-> validation.suggested_upgrade,
     image_url |-> img.image_url, quality_tier |-> "upgraded", validated |-> TRUE]

\* validated_images[0]["url"] if validated_images else None; a dict
\* without the key "url" raises KeyError
first_url(images) ==
    IF images = <<>> THEN [kind |-> "ok", v |-> ABSENT]
    ELSE IF images[1].url = ABSENT THEN [kind |-> "raise", exc |-> "KeyError"]
    ELSE [kind |-> "ok", v |-> images[1].url]

InitAsset ==
    /\ env = [LLM_PROVIDER |-> "zhipu", ZHIPU_API_KEY |-> FALSE,
              OPENAI_API_KEY |-> FALSE, TOGETHER_API_KEY |-> FALSE]
    /\ lm = FALSE
    /\ pc = "asset_start"
    /\ \E p \in {INSTAGRAM, REDDIT} : req = [op |-> "assets", platform |-> p]
    /\ clean = <<>>
    /\ result = NoResult
    /\ calls = 0
    /\ resp = NoResp

\* forward(): extraction = self.extractor(...)
asset_extract ==
    /\ pc = "asset_start"
    /\ \E e \in Extractions :
          result' = [kind |-> "asset",
                     extracted |-> e.images,
                     images |-> e.images,
                     is_carousel |-> e.is_carousel,
                     carousel |-> NoCarousel,
                     validations |-> <<>>,
                     validated_images |-> <<>>]
    /\ pc' = "asset_carousel"
    /\ UNCHANGED <<env, lm, req, clean, calls, resp>>

\* forward(): the carousel parser and the override of extraction.images
asset_carousel ==
    /\ pc = "asset_carousel"
    /\ IF result.is_carousel /\ req.platform = INSTAGRAM
       THEN /\ calls' = calls + 1
            /\ \E c \in Carousels :
                  result' = IF c.total_slides > 0
                            THEN [result EXCEPT !.carousel = c,
                                                !.images = c.slides,
                                                !.is_carousel = TRUE]
                            ELSE [result EXCEPT !.carousel = c]
       ELSE UNCHANGED <<result, calls>>
    /\ pc' = "asset_validate"
    /\ UNCHANGED <<env, lm, req, clean, resp>>

\* forward(): one round of `for img in extraction.images`
asset_validate ==
    /\ pc = "asset_validate"
    /\ Len(result.validations) < Len(result.images)
    /\ LET img == result.images[Len(result.validations) + 1]
       IN  IF has_url(img)
           THEN \E v \in Validations :
                   result' =
                     [result EXCEPT
                        !.validations = Append(@, [called |-> TRUE,
                            is_valid |-> v.is_valid,
                            suggested_upgrade |-> v.suggested_upgrade]),
                        !.validated_images =
                            IF v.is_valid THEN Append(@, validated(img))
                            ELSE IF v.suggested_upgrade \notin {ABSENT, ""}
                                 THEN Append(@, upgraded(img, v))
                                 ELSE @]
           ELSE result' =
                  [result EXCEPT
                     !.validations = Append(@, [called |-> FALSE,
                         is_valid |-> FALSE, suggested_upgrade |-> ABSENT])]
    /\ UNCHANGED <<env, lm, pc, req, clean, calls, resp>>

\* forward(): return dspy.Prediction(...)
asset_return ==
    /\ pc = "asset_validate"
    /\ Len(result.validations) = Len(result.images)
    /\ LET primary == first_url(result.validated_images)
       IN  resp' = IF primary.kind = "raise"
                   THEN [kind |-> "raise", exc |-> primary.exc]
                   ELSE [kind |-> "prediction",
                         images |-> result.validated_images,
                         primary_image |-> primary.v,
                         is_carousel |-> result.is_carousel,
                         total_images |-> Len(result.validated_images)]
    /\ pc' = "asset_done"
    /\ UNCHANGED <<env, lm, req, clean, result, calls>>

NextAsset ==
    \/ asset_extract
    \/ asset_carousel
    \/ asset_validate
    \/ asset_return

SpecAsset == InitAsset /\ [][NextAsset]_vars


AssetDone == pc = "asset_done"

\* the list forward() validates: the slides when the parser was invoked
\* and reported total_slides > 0, the extracted images otherwise
AssetSource ==
    IF calls = 1 /\ result.carousel.total_slides > 0
    THEN result.carousel.slides
    ELSE result.extracted

\* the positions of AssetSource whose dict has a URL and was validated or
\* given a suggested upgrade
KeptPositions ==
    {i \in 1..Len(AssetSource) :
        /\ has_url(AssetSource[i])
        /\ \/ result.validations[i].is_valid
           \/ result.validations[i].suggested_upgrade # ABSENT}

\* the carousel parser is invoked exactly for an Instagram extraction that
\* reports is_carousel, and the validated list is AssetSource
C22_CarouselRule ==
    AssetDone =>
        /\ calls = (IF result.is_carousel /\ req.platform = INSTAGRAM THEN 1 ELSE 0)
        /\ result.images = AssetSource
        /\ Len(result.validations) = Len(AssetSource)

\* images is the kept part of AssetSource in its order, and total_images
\* is its length
C22_ImagesAreKeptSubsequence ==
    (AssetDone /\ resp.kind = "prediction") =>
        /\ {resp.images[k].index : k \in 1..Len(resp.images)} = KeptPositions
        /\ \A k \in 1..(Len(resp.images) - 1) :
               resp.images[k].index < resp.images[k + 1].index
        /\ \A k \in 1..Len(resp.images) :
               LET img == AssetSource[resp.images[k].index]
               IN  /\ resp.images[k].image_url = img.image_url
                   /\ resp.images[k].url \in {img.url, URL_UP}
        /\ resp.total_images = Len(resp.images)

\* primary_image is the URL of the first image, under either key, or None
C22_PrimaryImage ==
    (AssetDone /\ resp.kind = "prediction") =>
        resp.primary_image =
            IF resp.images = <<>> THEN ABSENT ELSE image_url_of(resp.images[1])

\* C22: forward() returns a prediction without raising; its images are the
\* dicts of the extracted images, or of the slides, that have a URL and
\* were validated or upgraded, in their order; total_images is their
\* number; primary_image is the URL of the first of them under "url" or
\* "image_url", or None; the carousel parser is invoked only for an
\* Instagram carousel and its slides are used only when total_slides > 0
C22_ForwardReturnsValidatedImages ==
    /\ AssetDone => resp.kind = "prediction"
    /\ C22_CarouselRule
    /\ C22_ImagesAreKeptSubsequence
    /\ C22_PrimaryImage

\* forward() returns whenever the first kept image has the key "url"
C22_ReturnsUnlessFirstHasNoUrlKey ==
    AssetDone =>
        (resp.kind = "prediction" <=>
            (KeptPositions = {} \/
             LET i == CHOOSE j \in KeptPositions : \A k \in KeptPositions : j <= k
             IN  \/ AssetSource[i].url # ABSENT
                 \/ ~result.validations[i].is_valid))

====
